---- MODULE Spec2Model ----
(***************************************************************************)
(* A model of scraper.py: the SanatateSpider crawl of the paginated        *)
(* listing, the per-block record assembly and its helper functions.        *)
(*                                                                         *)
(* Text is a sequence of characters, each a one-character string; a        *)
(* non-ASCII character is written by its code point ("U+0219").            *)
(* What the regular-expression and XPath libraries return for a block      *)
(* (findall and extract results) is part of the block, as the page gives   *)
(* it; everything the script computes from those results is computed here. *)
(* An uncaught Python exception is the value Raise(name).                  *)
(***************************************************************************)
EXTENDS Integers, Sequences, FiniteSets, TLC

VARIABLES site, queue, response, idx, pc, sink, passes, run, snaps, arg, res

crawl == <<site, queue, response, idx, pc, sink, passes, run, snaps>>
pure == <<arg, res>>
vars == <<site, queue, response, idx, pc, sink, passes, run, snaps, arg, res>>

\* ---------------------------------------------------------------- bounds
MaxTextLen == 2
MaxTitleWords == 2
MaxDocs == 3
MaxDates == 2
MaxPages == 2
MaxBlocks == 2
MaxRuns == 2
MaxListing == 11

\* ------------------------------------------------------------------ text
\* None, the absent value of a text field
None == <<>>

Raise(exc) == [raised |-> exc]

Raised(v) == "raised" \in DOMAIN v

RECURSIVE Concat(_)
Concat(seqs) == IF seqs = <<>> THEN <<>> ELSE Head(seqs) \o Concat(Tail(seqs))

Digits == <<"0", "1", "2", "3", "4", "5", "6", "7", "8", "9">>

IsDigit(c) == \E i \in 1..10 : Digits[i] = c

DigitValue(c) == (CHOOSE i \in 1..10 : Digits[i] = c) - 1

\* int(text) of a string of decimal digits
RECURSIVE int(_)
int(text) ==
    IF Len(text) = 1 THEN DigitValue(text[1])
    ELSE 10 * int(SubSeq(text, 1, Len(text) - 1)) + DigitValue(text[Len(text)])

\* str(n) of a natural number
RECURSIVE str(_)
str(n) == IF n < 10 THEN <<Digits[n + 1]>> ELSE str(n \div 10) \o <<Digits[(n % 10) + 1]>>

\* whether text[i..] starts with pat
StartsAt(text, i, pat) ==
    /\ i + Len(pat) - 1 <= Len(text)
    /\ SubSeq(text, i, i + Len(pat) - 1) = pat

\* Python's  pat in text
Contains(text, pat) == \E i \in 1..(Len(text) + 1) : StartsAt(text, i, pat)

\* text.replace(old, new): every non-overlapping occurrence, left to right
RECURSIVE replace(_, _, _)
replace(text, old, new) ==
    IF text = <<>> THEN <<>>
    ELSE IF StartsAt(text, 1, old)
         THEN new \o replace(SubSeq(text, Len(old) + 1, Len(text)), old, new)
         ELSE <<Head(text)>> \o replace(Tail(text), old, new)

\* text.strip(): leading and trailing blanks removed
RECURSIVE strip(_)
strip(text) ==
    IF text = <<>> THEN <<>>
    ELSE IF Head(text) = " " THEN strip(Tail(text))
    ELSE IF text[Len(text)] = " " THEN strip(SubSeq(text, 1, Len(text) - 1))
    ELSE text

LowerMap ==
    "A" :> "a" @@ "B" :> "b" @@ "C" :> "c" @@ "D" :> "d" @@ "E" :> "e" @@
    "F" :> "f" @@ "G" :> "g" @@ "H" :> "h" @@ "I" :> "i" @@ "J" :> "j" @@
    "K" :> "k" @@ "L" :> "l" @@ "M" :> "m" @@ "N" :> "n" @@ "O" :> "o" @@
    "P" :> "p" @@ "Q" :> "q" @@ "R" :> "r" @@ "S" :> "s" @@ "T" :> "t" @@
    "U" :> "u" @@ "V" :> "v" @@ "W" :> "w" @@ "X" :> "x" @@ "Y" :> "y" @@
    "Z" :> "z" @@
    "U+0218" :> "U+0219" @@ "U+015E" :> "U+015F" @@ "U+021A" :> "U+021B" @@
    "U+0162" :> "U+0163" @@ "U+0102" :> "U+0103" @@ "U+00C2" :> "U+00E2" @@
    "U+00CE" :> "U+00EE"

\* text.lower()
lower(text) ==
    [i \in 1..Len(text) |->
        IF text[i] \in DOMAIN LowerMap THEN LowerMap[text[i]] ELSE text[i]]

\* --------------------------------------------------------- TextNormalizer
DIACRITICS_RULES ==
    << [chars |-> {"U+0219", "U+015F"}, repl |-> "s"],
       [chars |-> {"U+0218", "U+015E"}, repl |-> "S"],
       [chars |-> {"U+021B", "U+0163"}, repl |-> "t"],
       [chars |-> {"U+021A", "U+0162"}, repl |-> "T"],
       [chars |-> {"U+0103", "U+00E2"}, repl |-> "a"],
       [chars |-> {"U+0102", "U+00C2"}, repl |-> "A"],
       [chars |-> {"U+00EE"}, repl |-> "i"],
       [chars |-> {"U+00CE"}, repl |-> "I"] >>

\* The characters of the model that are not ASCII.
NonAscii ==
    (UNION {DIACRITICS_RULES[i].chars : i \in 1..Len(DIACRITICS_RULES)})
        \cup {"U+00E9", "U+00DF", "U+20AC", "U+E000"}

IsAscii(text) == \A i \in 1..Len(text) : text[i] \notin NonAscii

\* re.UNICODE, which strip_diacritics passes to re.sub in the place of count
re_UNICODE == 32

\* re.sub('[chars]', repl, text, count): the first count matches are replaced
RECURSIVE re_sub(_, _, _, _)
re_sub(chars, repl, text, count) ==
    IF text = <<>> \/ count = 0 THEN text
    ELSE IF Head(text) \in chars
         THEN <<repl>> \o re_sub(chars, repl, Tail(text), count - 1)
         ELSE <<Head(text)>> \o re_sub(chars, repl, Tail(text), count)

\* unidecode of one character: ASCII is kept, a letter goes to its closest
\* ASCII spelling, a code point without a table entry to nothing.
unidecode_char(c) ==
    CASE c \in {"U+0219", "U+015F"} -> <<"s">>
      [] c \in {"U+0218", "U+015E"} -> <<"S">>
      [] c \in {"U+021B", "U+0163"} -> <<"t">>
      [] c \in {"U+021A", "U+0162"} -> <<"T">>
      [] c \in {"U+0103", "U+00E2"} -> <<"a">>
      [] c \in {"U+0102", "U+00C2"} -> <<"A">>
      [] c = "U+00EE" -> <<"i">>
      [] c = "U+00CE" -> <<"I">>
      [] c = "U+00E9" -> <<"e">>
      [] c = "U+00DF" -> <<"s", "s">>
      [] c = "U+20AC" -> <<"E", "U", "R">>
      [] c = "U+E000" -> <<>>
      [] OTHER -> <<c>>

unidecode(text) == Concat([i \in 1..Len(text) |-> unidecode_char(text[i])])

RECURSIVE apply_rules(_, _)
apply_rules(rules, result) ==
    IF rules = <<>> THEN result
    ELSE apply_rules(Tail(rules),
                     re_sub(Head(rules).chars, Head(rules).repl, result, re_UNICODE))

\* strip_diacritics as a function that also lower-cases its result
strip_diacritics_lowering(text) == lower(unidecode(apply_rules(DIACRITICS_RULES, text)))

strip_diacritics(text) == unidecode(apply_rules(DIACRITICS_RULES, text))

\* --------------------------------------------------------- TypeClassifier
TYPE_RULES ==
    << [search_string |-> <<"l","e","g","e">>, initiative_type |-> "LEGE"],
       [search_string |-> <<"h","o","t","a","r","a","r","e"," ","d","e"," ","g","u","v","e","r","n">>,
        initiative_type |-> "HG"],
       [search_string |-> <<"h","o","t","a","r","a","r","e"," ","a"," ","g","u","v","e","r","n","u","l","u","i">>,
        initiative_type |-> "HG"],
       [search_string |-> <<"h","o","t","a","r","a","r","e">>, initiative_type |-> "HG"],
       [search_string |-> <<"h","g">>, initiative_type |-> "HG"],
       [search_string |-> <<"o","r","d","o","n","a","n","t","a"," ","d","e"," ","g","u","v","e","r","n">>,
        initiative_type |-> "OG"],
       [search_string |-> <<"o","r","d","o","n","a","n","t","a"," ","d","e"," ","u","r","g","e","n","t","a">>,
        initiative_type |-> "OUG"],
       [search_string |-> <<"o","r","d","i","n"," ","d","e"," ","m","i","n","i","s","t","r","u">>,
        initiative_type |-> "OM"],
       [search_string |-> <<"o","r","d","i","n","u","l">>, initiative_type |-> "OM"],
       [search_string |-> <<"o","r","d","i","n">>, initiative_type |-> "OM"],
       [search_string |-> <<"o","r","d","o","n","a","n","t","a">>, initiative_type |-> "OG"] >>

RECURSIVE first_match(_, _)
first_match(text, rules) ==
    IF rules = <<>> THEN "OTHER"
    ELSE IF Contains(text, Head(rules).search_string) THEN Head(rules).initiative_type
    ELSE first_match(text, Tail(rules))

guess_initiative_type(text, rules) == first_match(strip_diacritics(text), rules)

\* the connector words of re.search(r'(pentru|privind)', ...)
Connectors == {<<"p","e","n","t","r","u">>, <<"p","r","i","v","i","n","d">>}

\* stop_pos.start() + 1, or 0 when re.search finds nothing
stop_pos(text) ==
    LET hits == {i \in 1..Len(text) : \E w \in Connectors : StartsAt(text, i, w)}
    IN  IF hits = {} THEN 0 ELSE CHOOSE i \in hits : \A j \in hits : i <= j

\* the type of a block from its normalized title
publication_type(title) ==
    LET publication_text == lower(title)
        pos == stop_pos(publication_text)
    IN  IF pos # 0
        THEN guess_initiative_type(SubSeq(publication_text, 1, pos - 1), TYPE_RULES)
        ELSE "OTHER"

\* ---------------------------------------------------------- DateExtractor
IsLeap(y) == (y % 4 = 0 /\ y % 100 # 0) \/ y % 400 = 0

DaysInMonth(y, m) ==
    IF m = 2 THEN (IF IsLeap(y) THEN 29 ELSE 28)
    ELSE IF m \in {4, 6, 9, 11} THEN 30 ELSE 31

\* datetime.strptime(date_text, '%d-%m-%Y'): a date, or ValueError
strptime(date_text) ==
    LET seps == {i \in 1..Len(date_text) : ~IsDigit(date_text[i])}
    IN  IF Cardinality(seps) # 2 \/ \E i \in seps : date_text[i] # "-"
        THEN Raise("ValueError")
        ELSE LET i == CHOOSE k \in seps : \A l \in seps : k <= l
                 j == CHOOSE k \in seps : \A l \in seps : l <= k
                 D == SubSeq(date_text, 1, i - 1)
                 M == SubSeq(date_text, i + 1, j - 1)
                 Y == SubSeq(date_text, j + 1, Len(date_text))
             IN  IF /\ Len(D) \in 1..2 /\ Len(M) \in 1..2 /\ Len(Y) = 4
                    /\ int(M) \in 1..12
                    /\ int(Y) >= 1
                    /\ int(D) >= 1
                    /\ int(D) <= DaysInMonth(int(Y), int(M))
                 THEN [y |-> int(Y), m |-> int(M), d |-> int(D)]
                 ELSE Raise("ValueError")

\* n as decimal digits, zero-padded to width
RECURSIVE zfill(_, _)
zfill(text, width) == IF Len(text) >= width THEN text ELSE zfill(<<"0">> \o text, width)

\* date.isoformat()
isoformat(date) ==
    zfill(str(date.y), 4) \o <<"-">> \o zfill(str(date.m), 2) \o <<"-">> \o zfill(str(date.d), 2)

next_day(date) ==
    IF date.d < DaysInMonth(date.y, date.m) THEN [date EXCEPT !.d = date.d + 1]
    ELSE IF date.m < 12 THEN [date EXCEPT !.m = date.m + 1, !.d = 1]
    ELSE [y |-> date.y + 1, m |-> 1, d |-> 1]

\* date_obj + timedelta(days): a date, or OverflowError past the year 9999
RECURSIVE add_days(_, _)
add_days(date, days) ==
    IF days = 0 THEN date
    ELSE IF next_day(date).y > 9999 THEN Raise("OverflowError")
    ELSE add_days(next_day(date), days - 1)

\* parse_date that skips a date text that does not parse and tries the next
RECURSIVE parse_date_skipping(_)
parse_date_skipping(text) ==
    IF text = <<>> THEN Raise("TypeError")
    ELSE IF Raised(strptime(Head(text))) THEN parse_date_skipping(Tail(text))
    ELSE [date |-> isoformat(strptime(Head(text))), date_obj |-> strptime(Head(text))]

\* SanatateSpider.parse_date: it returns in the first iteration of its loop;
\* after a ValueError date_obj is unbound and the return raises.
parse_date(text) ==
    IF text = <<>> THEN Raise("TypeError")
    ELSE LET date_obj == strptime(Head(text))
         IN  IF Raised(date_obj) THEN Raise("UnboundLocalError")
             ELSE [date |-> isoformat(date_obj), date_obj |-> date_obj]

\* --------------------------------------------------------- DocumentLinker
\* json.dumps(value): the serialized text, kept as the value it encodes
json_dumps(value) == [json |-> value]

\* docs and documents of parse: types[i] with urls[i] for i in range(len(types))
link(types, urls) ==
    IF Len(types) > Len(urls) THEN Raise("IndexError")
    ELSE [documents |-> [i \in 1..Len(types) |-> [type |-> types[i], url |-> urls[i]]]]

\* -------------------------------------------------------- ContactExtractor
Range(seq) == {seq[i] : i \in 1..Len(seq)}

\* get_contacts, given what the two findall calls return
get_contacts(emails, numbers) == [email |-> Range(emails), tel |-> Range(numbers)]

\* --------------------------------------------------------- RecordAssembler
\* identify: url, " : " and the md5 hex digest of title (kept as its preimage)
identify(title, url) == [prefix |-> url \o <<" ", ":", " ">>, md5 |-> title]

\* feedback_days that falls back to 0 when the body has no figure
feedback_days_defaulting(text_feedback_days) ==
    IF text_feedback_days = <<>> THEN [days |-> 0]
    ELSE [days |-> int(text_feedback_days[1])]

\* feedback_days = int(text_feedback_days[0])
feedback_days_of(text_feedback_days) ==
    IF text_feedback_days = <<>> THEN Raise("IndexError")
    ELSE [days |-> int(text_feedback_days[1])]

PublicationFields ==
    {"institution", "identifier", "type", "date", "title", "description",
     "documents", "contact", "feedback_days", "max_feedback_date"}

\* One iteration of the loop of parse, up to the Publication it builds: the
\* row handed to the sink, or the exception that leaves the loop.
Publication(item, url) ==
    LET body_text == lower(item.body)
        title == strip_diacritics(strip(item.title))
        type == publication_type(title)
        contact == get_contacts(item.emails, item.tels)
        found == feedback_days_of(item.text_feedback_days)
    IN  IF Raised(found) THEN found
        ELSE
        LET feedback_days == found.days
            parsed == IF item.text_date # <<>> THEN parse_date(item.text_date)
                      ELSE [date |-> None, date_obj |-> None]
        IN  IF Raised(parsed) THEN parsed
            ELSE
            LET feedback_date == IF item.text_date # <<>>
                                 THEN add_days(parsed.date_obj, feedback_days)
                                 ELSE [y |-> 0, m |-> 0, d |-> 0]
                linked == link(item.types, item.urls)
            IN  IF Raised(feedback_date) THEN feedback_date
                ELSE IF Raised(linked) THEN linked
                ELSE [institution |-> "sanatate",
                      identifier |-> identify(title, url),
                      type |-> type,
                      date |-> parsed.date,
                      title |-> title,
                      description |-> strip_diacritics(body_text),
                      documents |-> json_dumps(linked.documents),
                      contact |-> json_dumps(contact),
                      feedback_days |-> feedback_days,
                      max_feedback_date |-> IF item.text_date # <<>>
                                            THEN isoformat(feedback_date)
                                            ELSE None]

\* scraperwiki.sqlite.save with plain INSERT: the row is added, none replaced
save_inserting(table, data) == table \cup {data}

\* scraperwiki.sqlite.save(unique_keys=['identifier'], data): the row replaces
\* the rows of the table that have its identifier
save(table, data) == {r \in table : r.identifier # data.identifier} \cup {data}

\* ---------------------------------------------------- PaginationController
INDEX_URL ==
    <<"h","t","t","p",":","/","/","w","w","w",".","m","s",".","r","o","/",
      "a","c","t","e","-","n","o","r","m","a","t","i","v","e","-","i","n","-",
      "t","r","a","n","s","p","a","r","e","n","t","a","/","?","v","p","a","g","e","=","1">>

\* next_page_url that substitutes str(next_page + 1)
next_page_url_skipping(url, current_page) ==
    replace(url, str(current_page), str(current_page + 2))

next_page_url(url, current_page) == replace(url, str(current_page), str(current_page + 1))

\* The listing's server: the page index a URL asks for, 0 for any other URL.
page_of(url) ==
    LET n == Len(INDEX_URL) - 1
    IN  IF /\ Len(url) > n
           /\ SubSeq(url, 1, n) = SubSeq(INDEX_URL, 1, n)
           /\ \A i \in (n + 1)..Len(url) : IsDigit(url[i])
        THEN int(SubSeq(url, n + 1, Len(url)))
        ELSE 0

\* ------------------------------------------------------------- the crawl
NoResponse == [url |-> <<>>, current |-> 0, total |-> 0, blocks |-> <<>>]

NoRaise == [block |-> 0, exc |-> "none"]

NoSite == [total |-> 0, pages |-> <<>>]

\* The last pass (call of parse), with field f set to v
Pass(f, v) == [passes EXCEPT ![Len(passes)][f] = v]

\* The runner downloads the next scheduled request and calls parse with the
\* response; a URL the listing does not have gives no response.
Fetch ==
    /\ pc = "idle"
    /\ queue # <<>>
    /\ LET url == Head(queue)
           p == page_of(url)
       IN  IF p \in 1..site.total
           THEN /\ response' = [url |-> url, current |-> p, total |-> site.total,
                                blocks |-> site.pages[p]]
                /\ idx' = 1
                /\ pc' = "blocks"
                /\ passes' = Append(passes,
                       [run |-> run, url |-> url, current |-> p, total |-> site.total,
                        saves |-> <<>>, raised |-> NoRaise, requests |-> <<>>,
                        ended |-> FALSE])
           ELSE UNCHANGED <<response, idx, pc, passes>>
    /\ queue' = Tail(queue)
    /\ UNCHANGED <<site, sink, run, snaps, pure>>

\* One iteration of  for item in response.css('.panel'): the row is saved, or
\* the exception leaves parse and the runner logs it.
ParseItem ==
    /\ pc = "blocks"
    /\ idx <= Len(response.blocks)
    /\ LET data == Publication(response.blocks[idx], response.url)
       IN  IF Raised(data)
           THEN /\ pc' = "idle"
                /\ passes' = [passes EXCEPT
                       ![Len(passes)].raised = [block |-> idx, exc |-> data.raised],
                       ![Len(passes)].ended = TRUE]
                /\ UNCHANGED <<sink, idx>>
           ELSE /\ sink' = save(sink, data)
                /\ idx' = idx + 1
                /\ passes' = Pass("saves",
                       Append(passes[Len(passes)].saves, [block |-> idx, data |-> data]))
                /\ pc' = pc
    /\ UNCHANGED <<site, queue, response, run, snaps, pure>>

\* After the loop: the next page is requested when there is one.
Paginate ==
    /\ pc = "blocks"
    /\ idx > Len(response.blocks)
    /\ LET current_page == response.current
           total_pages == response.total
           url == next_page_url(response.url, current_page)
       IN  IF current_page < total_pages
           THEN /\ queue' = Append(queue, url)
                /\ passes' = [passes EXCEPT
                       ![Len(passes)].requests = Append(@, url),
                       ![Len(passes)].ended = TRUE]
           ELSE /\ queue' = queue
                /\ passes' = Pass("ended", TRUE)
    /\ pc' = "idle"
    /\ UNCHANGED <<site, response, idx, sink, run, snaps, pure>>

\* The script is run again (process.start) over the same table.
Restart ==
    /\ pc = "idle"
    /\ queue = <<>>
    /\ run < MaxRuns
    /\ run' = run + 1
    /\ queue' = <<INDEX_URL>>
    /\ snaps' = Append(snaps, sink)
    /\ UNCHANGED <<site, response, idx, pc, sink, passes, pure>>

\* process.crawl(SanatateSpider) over the listing s: start_urls is scheduled
Start(s) ==
    /\ site = s
    /\ queue = <<INDEX_URL>>
    /\ response = NoResponse
    /\ idx = 0
    /\ pc = "idle"
    /\ sink = {}
    /\ passes = <<>>
    /\ run = 1
    /\ snaps = <<>>
    /\ arg = <<>>
    /\ res = <<>>

\* All sequences over S of length at most n
SeqsUpTo(S, n) == UNION {[1..k -> S] : k \in 0..n}

\* ------------------------------------------------------------ the inputs
OkBlock ==
    [title |-> <<"O","r","d","i","n"," ","p","r","i","v","i","n","d"," ","x">>,
     body |-> <<"A","f","i","s","a","t">>,
     text_date |-> << <<"0","5","-","0","3","-","2","0","2","0">> >>,
     text_feedback_days |-> << <<"1","0">> >>,
     types |-> <<"A">>,
     urls |-> <<"u1">>,
     emails |-> <<"e", "e">>,
     tels |-> <<>>]

\* a block whose body has no feedback-window figure
NoDaysBlock ==
    [OkBlock EXCEPT !.title = <<"L","e","g","e"," ","p","e","n","t","r","u"," ","y">>,
                    !.text_feedback_days = <<>>]

CrawlBlocks == {OkBlock, NoDaysBlock}

\* A listing of n pages whose blocks are given page by page
Listing(pages) == [total |-> Len(pages), pages |-> pages]

Sites ==
    {Listing(pages) : pages \in
        UNION {[1..n -> SeqsUpTo(CrawlBlocks, MaxBlocks)] : n \in 1..MaxPages}}

Init == \E s \in Sites : Start(s)

Next == Fetch \/ ParseItem \/ Paginate \/ Restart

Spec == Init /\ [][Next]_vars

\* ---------------------------------------------------------------- claims
\* The blocks of the page a pass processed
BlocksOf(p) == site.pages[p.current]

\* The saves of pass p that handed block i to the sink
SavesOf(p, i) == {s \in 1..Len(p.saves) : p.saves[s].block = i}

HasDays(item) == item.text_feedback_days # <<>>

\* C1: when a block has no feedback-window figure only that block fails:
\* once the pass has ended every later block that has one was handed to the
\* sink, and the next page was requested when current < total.
C1_OnlyThatBlockFails ==
    \A k \in 1..Len(passes) :
        LET p == passes[k]
        IN  p.ended =>
                \A i \in 1..Len(BlocksOf(p)) :
                    ~HasDays(BlocksOf(p)[i]) =>
                        /\ \A j \in (i + 1)..Len(BlocksOf(p)) :
                               HasDays(BlocksOf(p)[j]) => SavesOf(p, j) # {}
                        /\ p.current < p.total => p.requests # <<>>

\* C2: the sink holds only rows handed over whole by a save; a block without
\* a feedback-window figure is never saved; within a pass every block before
\* the one being processed (or the one that raised) was saved exactly once
\* and no other block was saved; every saved row has all the record's fields.
C2_NoPartialRecord ==
    /\ \A r \in sink :
           \E k \in 1..Len(passes) :
               \E s \in 1..Len(passes[k].saves) : passes[k].saves[s].data = r
    /\ \A k \in 1..Len(passes) :
           LET p == passes[k]
               reached == IF p.raised # NoRaise THEN p.raised.block - 1
                          ELSE IF p.ended THEN Len(BlocksOf(p))
                          ELSE idx - 1
           IN  /\ \A i \in 1..Len(BlocksOf(p)) :
                      Cardinality(SavesOf(p, i)) = (IF i <= reached THEN 1 ELSE 0)
               /\ \A s \in 1..Len(p.saves) :
                      /\ HasDays(BlocksOf(p)[p.saves[s].block])
                      /\ DOMAIN p.saves[s].data = PublicationFields
                      /\ p.saves[s].data.feedback_days =
                             int(BlocksOf(p)[p.saves[s].block].text_feedback_days[1])
               /\ p.raised # NoRaise => ~HasDays(BlocksOf(p)[p.raised.block])

\* C2 witness: a pass saved its first block and raised on its second
C2_Witness ==
    \E k \in 1..Len(passes) :
        /\ passes[k].raised = [block |-> 2, exc |-> "IndexError"]
        /\ Len(passes[k].saves) = 1
        /\ sink # {}

\* C7: a pass that has ended emitted exactly one request when current < total
\* and none when current >= total.
C7_OneRequestPerPage ==
    \A k \in 1..Len(passes) :
        LET p == passes[k]
        IN  p.ended =>
                IF p.current < p.total THEN Len(p.requests) = 1 ELSE p.requests = <<>>

\* ------------------------------------------- one block, its dates varied
\* DATE_PATTERN's group: \d{1,2}[-/]\d{2}[-/]\d{4}
DATE_PATTERN(text) ==
    \E n \in 1..2 :
        /\ Len(text) = n + 8
        /\ \A i \in (1..n) \cup {n + 2, n + 3} \cup ((n + 5)..(n + 8)) : IsDigit(text[i])
        /\ text[n + 1] \in {"-", "/"}
        /\ text[n + 4] \in {"-", "/"}

\* FEEDBACK_DAYS_PATTERN's group: [0-9]{1,2}
FEEDBACK_DAYS_PATTERN(text) ==
    /\ Len(text) \in 1..2
    /\ \A i \in 1..Len(text) : IsDigit(text[i])

DateTexts ==
    {t \in {<<"0","5","-","0","3","-","2","0","2","0">>,
            <<"5","-","0","3","-","2","0","2","0">>,
            <<"2","8","-","0","2","-","2","0","1","6">>,
            <<"2","8","-","0","2","-","2","0","1","7">>,
            <<"3","1","-","1","2","-","2","0","1","7">>,
            <<"3","1","-","0","2","-","2","0","1","7">>,
            <<"0","5","-","1","3","-","2","0","1","7">>,
            <<"0","5","/","0","3","/","2","0","2","0">>,
            <<"0","0","-","0","1","-","2","0","1","7">>,
            <<"3","1","-","1","2","-","9","9","9","9">>,
            <<"0","1","-","0","1","-","0","0","0","0">>} : DATE_PATTERN(t)}

DaysTexts ==
    {t \in {<<"0">>, <<"2">>, <<"1","0">>, <<"9","9">>} : FEEDBACK_DAYS_PATTERN(t)}

DateBlocks ==
    {[OkBlock EXCEPT !.text_date = dates, !.text_feedback_days = days] :
        dates \in SeqsUpTo(DateTexts, MaxDates),
        days \in {<<>>} \cup {<<d>> : d \in DaysTexts}}

InitDate == \E b \in DateBlocks : Start(Listing(<< <<b>> >>))

NextCrawl == Fetch \/ ParseItem \/ Paginate

SpecDate == InitDate /\ [][NextCrawl]_vars

\* The day, month and year a date text spells, read from its end
ReadDMY(text) ==
    LET n == Len(text)
    IN  [y |-> int(SubSeq(text, n - 3, n)),
         m |-> int(SubSeq(text, n - 6, n - 5)),
         d |-> int(SubSeq(text, 1, n - 8))]

\* The date an ISO text YYYY-MM-DD spells
FromIso(text) ==
    [y |-> int(SubSeq(text, 1, 4)), m |-> int(SubSeq(text, 6, 7)),
     d |-> int(SubSeq(text, 9, 10))]

\* The number of the day in the proleptic Gregorian calendar
Ordinal(date) ==
    LET before == <<0, 31, 59, 90, 120, 151, 181, 212, 243, 273, 304, 334>>
        y == date.y - 1
        leap == (date.y % 4 = 0 /\ date.y % 100 # 0) \/ date.y % 400 = 0
    IN  365 * y + (y \div 4) - (y \div 100) + (y \div 400)
            + before[date.m] + (IF leap /\ date.m > 2 THEN 1 ELSE 0) + date.d

\* a block whose first date match does not parse, with nothing else wrong
MalformedDate(item) ==
    /\ item.text_date # <<>>
    /\ Raised(strptime(item.text_date[1]))
    /\ HasDays(item)
    /\ Len(item.types) <= Len(item.urls)

\* C3: a block whose first date match is no valid day-month-year date, and
\* which has a feedback-window figure, is saved once its pass has ended, with
\* no date, no deadline and the window.
C3_MalformedDateNonFatal ==
    \A k \in 1..Len(passes) :
        LET p == passes[k]
        IN  p.ended =>
                \A i \in 1..Len(BlocksOf(p)) :
                    MalformedDate(BlocksOf(p)[i]) =>
                        \E s \in SavesOf(p, i) :
                            /\ p.saves[s].data.date = None
                            /\ p.saves[s].data.max_feedback_date = None
                            /\ p.saves[s].data.feedback_days =
                                   int(BlocksOf(p)[i].text_feedback_days[1])

\* C4: in every row handed to the sink the deadline is present exactly when
\* the date is; the date is the one the first date match spells; the deadline
\* is the day feedback_days days after it.
C4_DeadlineIsDatePlusWindow ==
    \A k \in 1..Len(passes) :
        \A s \in 1..Len(passes[k].saves) :
            LET data == passes[k].saves[s].data
                item == BlocksOf(passes[k])[passes[k].saves[s].block]
            IN  /\ (data.max_feedback_date # None) <=> (data.date # None)
                /\ data.date # None =>
                       /\ item.text_date # <<>>
                       /\ FromIso(data.date) = ReadDMY(item.text_date[1])
                       /\ Ordinal(FromIso(data.max_feedback_date)) =
                              Ordinal(FromIso(data.date)) + data.feedback_days

\* C4 witness: a saved row with a date, from a body with two different date
\* matches, whose deadline falls in a later month than its date
C4_Witness ==
    \E k \in 1..Len(passes) :
        \E s \in 1..Len(passes[k].saves) :
            LET data == passes[k].saves[s].data
                item == BlocksOf(passes[k])[passes[k].saves[s].block]
            IN  /\ data.date # None
                /\ Len(item.text_date) = 2
                /\ item.text_date[1] # item.text_date[2]
                /\ FromIso(data.max_feedback_date).m # FromIso(data.date).m

\* ------------------------------------- one block, its document links varied
DocBlocks ==
    {[OkBlock EXCEPT !.types = types, !.urls = urls] :
        types \in SeqsUpTo({"A", "B"}, MaxDocs),
        urls \in SeqsUpTo({"u1", "u2"}, MaxDocs)}

InitDocs == \E b \in DocBlocks : Start(Listing(<< <<b>> >>))

SpecDocs == InitDocs /\ [][NextCrawl]_vars

Min(a, b) == IF a <= b THEN a ELSE b

\* C5: whichever of labels and urls is longer, the block is saved once its
\* pass has ended, and its documents are the min(len(labels), len(urls))
\* pairs {labels[i], urls[i]}.
C5_PairsUpToShorter ==
    \A k \in 1..Len(passes) :
        LET p == passes[k]
        IN  p.ended =>
                \A i \in 1..Len(BlocksOf(p)) :
                    LET item == BlocksOf(p)[i]
                    IN  /\ p.raised = NoRaise
                        /\ \E s \in SavesOf(p, i) :
                               LET documents == p.saves[s].data.documents.json
                               IN  /\ Len(documents) = Min(Len(item.types), Len(item.urls))
                                   /\ \A n \in 1..Len(documents) :
                                          documents[n] =
                                              [type |-> item.types[n], url |-> item.urls[n]]

\* ----------------------------------------------- one block, its title varied
TitleWords ==
    {<<"l","e","g","e"," ">>,
     <<"h","o","t","a","r","a","r","e"," ","d","e"," ","g","u","v","e","r","n"," ">>,
     <<"H","o","t","U+0103","r","U+00E2","r","e"," ">>,
     <<"o","r","d","i","n"," ">>,
     <<"O","r","d","o","n","a","n","U+021B","a"," ","d","e"," ","u","r","g","e","n","U+021B","a"," ">>,
     <<"p","r","o","i","e","c","t"," ","d","e"," ">>,
     <<"p","r","i","v","i","n","d"," ">>,
     <<"p","e","n","t","r","u"," ">>,
     <<"x"," ">>}

Titles == {Concat(words) : words \in SeqsUpTo(TitleWords, MaxTitleWords)}

TitleBlocks == {[OkBlock EXCEPT !.title = title] : title \in Titles}

InitType == \E b \in TitleBlocks : Start(Listing(<< <<b>> >>))

SpecType == InitType /\ [][NextCrawl]_vars

\* The type the claim gives a title: the first rule found in the normalized,
\* lower-cased title cut before its first connector word, the whole title
\* when it has none.
ClaimedType(title) ==
    LET text == lower(strip_diacritics(strip(title)))
        pos == stop_pos(text)
    IN  first_match(IF pos = 0 THEN text ELSE SubSeq(text, 1, pos - 1), TYPE_RULES)

\* C6: the type of every saved row is the code of the first rule found in
\* the title cut before its first connector word, in the whole title when
\* there is no connector word, and OTHER when no rule is found.
C6_TypeOfTitle ==
    \A k \in 1..Len(passes) :
        \A s \in 1..Len(passes[k].saves) :
            passes[k].saves[s].data.type =
                ClaimedType(BlocksOf(passes[k])[passes[k].saves[s].block].title)

\* ------------------------------------------------ a listing of many pages
LongListings == {Listing([i \in 1..n |-> <<OkBlock>>]) : n \in 1..MaxListing}

InitPaging == \E s \in LongListings : Start(s)

SpecPaging == InitPaging /\ [][NextCrawl]_vars

\* The URL of page n of the listing
PageUrl(n) == SubSeq(INDEX_URL, 1, Len(INDEX_URL) - 1) \o str(n)

Terminated == pc = "idle" /\ queue = <<>>

\* C8: over a listing of N pages with no failing block the k-th call of parse
\* is for page k, at the URL of page k, and raises nothing; a pass that has
\* ended requested the URL of page k + 1 when k < N and nothing when k = N;
\* until the crawl has terminated either the one pending request is for the
\* next page or a page is being parsed, so a step can be taken; a crawl that
\* has terminated has processed N pages.
C8_EveryPageOnceInOrder ==
    /\ Len(passes) <= site.total
    /\ \A k \in 1..Len(passes) :
           /\ passes[k].current = k
           /\ passes[k].url = PageUrl(k)
           /\ passes[k].raised = NoRaise
           /\ passes[k].ended =>
                  passes[k].requests = (IF k < site.total THEN <<PageUrl(k + 1)>> ELSE <<>>)
    /\ Terminated => Len(passes) = site.total /\ passes[Len(passes)].ended
    /\ ~Terminated =>
           \/ /\ pc = "idle"
              /\ Len(queue) = 1
              /\ page_of(Head(queue)) = Len(passes) + 1
              /\ Len(passes) < site.total
           \/ /\ pc = "blocks"
              /\ queue = <<>>
              /\ response.current = Len(passes)
              /\ idx <= Len(response.blocks) + 1

\* C8 witness: the crawl of a listing of at least 11 pages has terminated
C8_Witness == Terminated /\ Len(passes) >= 11 /\ Cardinality(sink) = Len(passes)

\* ------------------------------------------------ the script is run again
SameTitleBlock == [OkBlock EXCEPT !.text_feedback_days = << <<"2">> >>]

OtherTitleBlock ==
    [OkBlock EXCEPT !.title = <<"H","G"," ","p","e","n","t","r","u"," ","z">>]

RerunBlocks == {OkBlock, SameTitleBlock, OtherTitleBlock, NoDaysBlock}

RerunSites ==
    {Listing([i \in 1..n |-> blocks]) :
        n \in 1..MaxPages, blocks \in SeqsUpTo(RerunBlocks, MaxBlocks)}

InitRerun == \E s \in RerunSites : Start(s)

SpecRerun == InitRerun /\ [][Next]_vars

\* C9: two rows of the sink never share an identifier; two saves from the
\* same URL of blocks with the same title carry the same identifier; and
\* whenever a later run of the script is between two pages or has ended,
\* the sink is what the run before it left.
C9_UpsertByIdentifier ==
    /\ \A r1, r2 \in sink : r1.identifier = r2.identifier => r1 = r2
    /\ \A k1, k2 \in 1..Len(passes) :
           \A s1 \in 1..Len(passes[k1].saves), s2 \in 1..Len(passes[k2].saves) :
               LET b1 == BlocksOf(passes[k1])[passes[k1].saves[s1].block]
                   b2 == BlocksOf(passes[k2])[passes[k2].saves[s2].block]
               IN  (passes[k1].url = passes[k2].url /\ b1.title = b2.title) =>
                       passes[k1].saves[s1].data.identifier =
                           passes[k2].saves[s2].data.identifier
    /\ (run >= 2 /\ pc = "idle") => sink = snaps[run - 1]

\* C9 witness: a second run has ended after a pass that saved two different
\* rows under one identifier
C9_Witness ==
    /\ run = 2
    /\ Terminated
    /\ \E k \in 1..Len(passes) :
           /\ passes[k].run = 2
           /\ Len(passes[k].saves) = 2
           /\ passes[k].saves[1].data.identifier = passes[k].saves[2].data.identifier
           /\ passes[k].saves[1].data # passes[k].saves[2].data

\* ------------------------------------------------------ normalizing a text
NormAlphabet ==
    {"a", "A", " ", "U+0219", "U+015F", "U+0102", "U+00CE", "U+00E9", "U+00DF",
     "U+20AC", "U+E000"}

InitNorm ==
    /\ arg \in SeqsUpTo(NormAlphabet, MaxTextLen)
    /\ res = <<>>
    /\ site = NoSite
    /\ queue = <<>>
    /\ response = NoResponse
    /\ idx = 0
    /\ pc = "idle"
    /\ sink = {}
    /\ passes = <<>>
    /\ run = 1
    /\ snaps = <<>>

\* strip_diacritics is applied to the text, then to its own result
Normalize ==
    /\ Len(res) < 2
    /\ res' = Append(res, strip_diacritics(IF res = <<>> THEN arg ELSE res[Len(res)]))
    /\ UNCHANGED <<arg, crawl>>

SpecNorm == InitNorm /\ [][Normalize]_vars

\* C10: normalizing a normalized text changes nothing, and normalizing a text
\* of ASCII characters gives the text.
C10_NormalizeIdempotent ==
    /\ Len(res) >= 1 /\ IsAscii(arg) => res[1] = arg
    /\ Len(res) >= 2 => res[2] = res[1]

\* C10 witness: a text with a character that is not ASCII was normalized twice
C10_Witness == Len(res) = 2 /\ ~IsAscii(arg) /\ res[1] # arg /\ IsAscii(res[2])

====
